---------------------------- MODULE Spec2Model ----------------------------
(***************************************************************************)
(* Order transaction engine of the e-commerce API                          *)
(* (src/src/services/order.service.ts) together with the cart and catalog  *)
(* operations it races with.                                               *)
(*                                                                         *)
(* The document store is modelled as MongoDB multi-document transactions   *)
(* behave: an operation that carries the session reads from the snapshot   *)
(* taken by the transaction's first operation, its writes stay private     *)
(* until commitTransaction, and a write to a document that another         *)
(* transaction has written (uncommitted) or that changed after the         *)
(* snapshot fails with a WriteConflict and aborts the transaction.         *)
(* An operation that carries no session reads and writes the committed     *)
(* documents directly.                                                     *)
(***************************************************************************)
EXTENDS Integers, Sequences, FiniteSets, TLC

\* ------------------------------------------------------------------ bounds
MaxQty == 2
MaxOrders == 2
MaxPrice == 2
MaxCalls == 3

Products == {"p1", "p2"}
Users == {"u1", "u2"}
Calls == {"c1", "c2"}

NoProduct == "null"
NoUser == "nobody"

Statuses == {"pending", "confirmed", "shipped", "delivered", "cancelled"}

Names == {"n1", "n2"}

VARIABLES
  products,   \* committed Product documents
  carts,      \* committed Cart documents, one per user
  orders,     \* committed Order documents, in creation order (index = id)
  calls,      \* the in-flight service calls: position and local variables
  invoked,    \* number of service calls invoked so far
  finished    \* the call that returned or threw in the last step, if any

vars == <<products, carts, orders, calls, invoked, finished>>

\* ------------------------------------------------------------- documents
MissingProduct ==
  [exists |-> FALSE, quantity |-> 0, inStock |-> FALSE, price |-> 0, name |-> ""]

NoCart == [exists |-> FALSE, items |-> <<>>]

NoOrder == [userId |-> NoUser, items |-> <<>>, totalAmount |-> 0, status |-> "pending"]

NoErr == [kind |-> "none", available |-> 0, requested |-> 0, from |-> "", to |-> "", index |-> 0]

Err(kind) == [NoErr EXCEPT !.kind = kind]

\* the documents of the committed store a call has changed so far
NoVis == [cart |-> FALSE, order |-> FALSE, prods |-> {}]

\* the result of getOrderStatistics before its queries have run
NoStats == [byStatus |-> {}, totalOrders |-> 0, totalRevenue |-> 0]

\* local state of a slot that serves no call
IdleCall ==
  [op |-> "none", pc |-> "idle", userId |-> NoUser, orderId |-> 0, newStatus |-> "pending",
   cart |-> <<>>, i |-> 0, snap |-> FALSE, snapP |-> [p \in Products |-> MissingProduct],
   staleP |-> {}, staleOrd |-> FALSE, wP |-> {}, wOrd |-> FALSE,
   prod |-> MissingProduct, order |-> NoOrder, orderItems |-> <<>>,
   cartDirty |-> FALSE, err |-> NoErr, vis |-> NoVis, stats |-> NoStats]

\* what a call hands back when it ends: its arguments, what it read, whether
\* it returned ("ok") or threw ("failed"), and which documents it changed
Outcome(cl, result) ==
  [op |-> cl.op, userId |-> cl.userId, orderId |-> cl.orderId, newStatus |-> cl.newStatus,
   cart |-> cl.cart, order |-> cl.order, result |-> result, err |-> cl.err, vis |-> cl.vis,
   stats |-> cl.stats]

NoOutcome == Outcome(IdleCall, "none")

\* --------------------------------------------------------- pure functions
RECURSIVE SumSubtotals(_)
SumSubtotals(items) ==
  IF items = <<>> THEN 0 ELSE Head(items).subtotal + SumSubtotals(Tail(items))

\* a decrement that takes one unit whatever the ordered quantity
DecrementByOne(prod, n) ==
  [prod EXCEPT !.quantity = prod.quantity - 1,
               !.inStock = IF prod.quantity - 1 = 0 THEN FALSE ELSE prod.inStock]

\* a decrement that forgets to clear inStock at zero
DecrementKeepsInStock(prod, n) == [prod EXCEPT !.quantity = prod.quantity - n]

\* product.quantity -= n; if (product.quantity === 0) product.inStock = false
Decrement(prod, n) ==
  [prod EXCEPT !.quantity = prod.quantity - n,
               !.inStock = IF prod.quantity - n = 0 THEN FALSE ELSE prod.inStock]

\* a stock check that refuses an order for exactly the available quantity
InsufficientOffByOne(prod, n) == (~prod.inStock) \/ prod.quantity <= n

\* the stock check of the placement loop
Insufficient(prod, n) == (~prod.inStock) \/ prod.quantity < n

\* an order item whose subtotal forgets the quantity
OrderItemUnitSubtotal(pid, prod, n) ==
  [productId |-> pid, name |-> prod.name, price |-> prod.price, quantity |-> n,
   subtotal |-> prod.price]

OrderItem(pid, prod, n) ==
  [productId |-> pid, name |-> prod.name, price |-> prod.price, quantity |-> n,
   subtotal |-> prod.price * n]

NewOrder(userId, items) ==
  [userId |-> userId, items |-> items, totalAmount |-> SumSubtotals(items), status |-> "pending"]

\* a product.save() that leaves the session out writes through
SaveProductNoSession == FALSE

\* product.save({ session }) in createOrderFromCart passes the session
SaveProductSession == TRUE

\* ------------------------------------------------------ transaction layer
\* a store whose transactions take no lock on the product documents they write
NoLockP(c, p) == FALSE

\* the product documents another open transaction has written
LockedP(c, p) == \E d \in Calls \ {c} : p \in calls[d].wP

\* a store that detects no write conflict
NoConflictP(c, p) == FALSE

\* a transactional write of p by c is refused
ConflictP(c, p) == p \in calls[c].staleP \/ LockedP(c, p)

\* the view of the product collection a call reads through its session: the
\* snapshot taken by the first operation of the transaction, plus its own writes
View(c) == IF calls[c].snap THEN calls[c].snapP ELSE products

\* a store that does not notice that a document written by a transaction has
\* changed since the snapshot of the transaction
OthersNoStale(c, W, o, u) ==
  [d \in Calls |->
     IF d = c THEN calls[d]
     ELSE [calls[d] EXCEPT
             !.staleOrd = IF calls[d].snap /\ calls[d].op = "cancel" /\ o # 0
                             /\ calls[d].orderId = o THEN TRUE ELSE @,
             !.cartDirty = IF calls[d].pc = "clearSave" /\ calls[d].userId = u
                              THEN TRUE ELSE @]]

\* the committed products W, the committed order o (0: none) or the cart
\* array of user u (NoUser: none) changed: every other transaction that holds
\* a snapshot sees W and o as stale, and a cart document read for saving by
\* another call has an outdated version
Others(c, W, o, u) ==
  [d \in Calls |->
     IF d = c THEN calls[d]
     ELSE [calls[d] EXCEPT
             !.staleP = IF calls[d].snap THEN @ \cup W ELSE @,
             !.staleOrd = IF calls[d].snap /\ calls[d].op = "cancel" /\ o # 0
                             /\ calls[d].orderId = o THEN TRUE ELSE @,
             !.cartDirty = IF calls[d].pc = "clearSave" /\ calls[d].userId = u
                              THEN TRUE ELSE @]]

\* a request is served by the first free slot (the slots are interchangeable)
Free(c) == calls[c].pc = "idle" /\ (c = "c1" \/ calls["c1"].pc # "idle")

\* an exception inside the try block while the transaction holds writes: the
\* transaction stays open, and keeps the documents it wrote, until the catch
\* block aborts it
Fail(cl, e) ==
  [IdleCall EXCEPT !.op = cl.op, !.pc = "catch", !.userId = cl.userId, !.orderId = cl.orderId,
                   !.err = e, !.vis = cl.vis, !.wP = cl.wP, !.wOrd = cl.wOrd]

\* call c, with locals cl, throws e. When its transaction holds no write,
\* abortTransaction changes nothing and the call ends in the same step.
\* cs is the state of the calls after what the step did before the throw.
Throws(cs, c, cl, e) ==
  IF cl.wP = {} /\ ~cl.wOrd
  THEN /\ calls' = [cs EXCEPT ![c] = IdleCall]
       /\ finished' = Outcome([cl EXCEPT !.err = e, !.cart = <<>>, !.order = NoOrder], "failed")
  ELSE /\ calls' = [cs EXCEPT ![c] = Fail(cl, e)]
       /\ finished' = NoOutcome

\* a write refused with WriteConflict: the server has aborted the transaction
Conflict(cs, c, cl) ==
  Throws(cs, c, [cl EXCEPT !.wP = {}, !.wOrd = FALSE], [Err("WriteConflict") EXCEPT !.index = cl.i])

\* ------------------------------------------------------------------- Init
SeedProduct(q, pr) ==
  [exists |-> TRUE, quantity |-> q, inStock |-> q > 0, price |-> pr, name |-> "n1"]

Init ==
  /\ products = [p \in Products |-> SeedProduct(IF p = "p1" THEN MaxQty ELSE 1, 1)]
  /\ carts = [u \in Users |-> NoCart]
  /\ orders = <<>>
  /\ calls = [c \in Calls |-> IdleCall]
  /\ invoked = 0
  /\ finished = NoOutcome

\* ------------------------------------------------ createOrderFromCart
\* getCart populates items.productId: a reference to a deleted product reads null
Populate(items) ==
  [j \in 1..Len(items) |->
     [productId |-> IF products[items[j].productId].exists THEN items[j].productId ELSE NoProduct,
      quantity |-> items[j].quantity]]

InFlightPlace == {d \in Calls : calls[d].op = "place"}

\* an empty check that only looks whether the cart document is there
EmptyCartMissingOnly(cart) == ~cart.exists

\* !cart || !cart.items || cart.items.length === 0
EmptyCart(cart) == (~cart.exists) \/ Len(cart.items) = 0

\* startSession, startTransaction, getCart(userId) without session, empty check
PlaceBegin(c, u) ==
  /\ Free(c)
  /\ invoked < MaxCalls
  /\ Len(orders) + Cardinality(InFlightPlace) < MaxOrders
  /\ invoked' = invoked + 1
  /\ LET cl == [IdleCall EXCEPT !.op = "place", !.userId = u]
     IN IF EmptyCart(carts[u])
        THEN Throws(calls, c, cl, Err("EmptyCart"))
        ELSE /\ calls' = [calls EXCEPT ![c] =
                  [cl EXCEPT !.pc = "find", !.i = 1, !.cart = Populate(carts[u].items)]]
             /\ finished' = NoOutcome
  /\ UNCHANGED <<products, carts, orders>>

\* Product.findById(item.productId).session(session) for item cl.i, read from
\* the view cl.snapP, and the two checks on the product
FindAndCheck(cs, c, cl) ==
  LET item == cl.cart[cl.i]
      prod == IF item.productId = NoProduct THEN MissingProduct
              ELSE cl.snapP[item.productId]
  IN IF ~prod.exists
     THEN Throws(cs, c, cl, [Err("ProductNotFound") EXCEPT !.index = cl.i])
     ELSE IF Insufficient(prod, item.quantity)
     THEN Throws(cs, c, cl, [Err("InsufficientStock") EXCEPT !.available = prod.quantity,
                                                             !.requested = item.quantity,
                                                             !.index = cl.i])
     ELSE /\ calls' = [cs EXCEPT ![c] = [cl EXCEPT !.prod = prod, !.pc = "save"]]
          /\ finished' = NoOutcome

\* the first findById of the loop: it takes the snapshot of the transaction
PlaceFind(c) ==
  /\ calls[c].op = "place" /\ calls[c].pc = "find"
  /\ FindAndCheck(calls, c, [calls[c] EXCEPT !.snap = TRUE, !.snapP = View(c)])
  /\ UNCHANGED <<products, carts, orders, invoked>>

\* the decrement, product.save({ session }) and orderItems.push; then either
\* the findById and checks of the next item, or, after the last item, the
\* total and Order.create([...], { session })
PlaceSave(c) ==
  /\ calls[c].op = "place" /\ calls[c].pc = "save"
  /\ LET cl == calls[c]
         item == cl.cart[cl.i]
         p == item.productId
         doc == Decrement(cl.prod, item.quantity)
         items == Append(cl.orderItems, OrderItem(p, doc, item.quantity))
         cs == IF SaveProductSession THEN calls ELSE Others(c, {p}, 0, NoUser)
         saved == IF SaveProductSession
                  THEN [cl EXCEPT !.snapP[p] = doc, !.wP = @ \cup {p}]
                  ELSE [cl EXCEPT !.vis.prods = @ \cup {p}]
         next == [saved EXCEPT !.orderItems = items, !.prod = MissingProduct, !.i = @ + 1]
     IN /\ IF SaveProductSession
           THEN UNCHANGED products
           ELSE ~LockedP(c, p) /\ products' = [products EXCEPT ![p] = doc]
        /\ IF SaveProductSession /\ ConflictP(c, p)
           THEN Conflict(cs, c, cl)
           ELSE IF cl.i < Len(cl.cart)
           THEN FindAndCheck(cs, c, next)
           ELSE /\ calls' = [cs EXCEPT ![c] =
                     [next EXCEPT !.order = NewOrder(cl.userId, items), !.orderItems = <<>>,
                                  !.pc = "clearFind"]]
                /\ finished' = NoOutcome
  /\ UNCHANGED <<carts, orders, invoked>>

\* clearCart(userId): Cart.findOne without session
PlaceClearFind(c) ==
  /\ calls[c].op = "place" /\ calls[c].pc = "clearFind"
  /\ IF ~carts[calls[c].userId].exists
     THEN Throws(calls, c, calls[c], Err("CartNotFound"))
     ELSE /\ calls' = [calls EXCEPT ![c].pc = "clearSave", ![c].cartDirty = FALSE]
          /\ finished' = NoOutcome
  /\ UNCHANGED <<products, carts, orders, invoked>>

\* clearCart(userId): cart.items = []; cart.save() without session; the save
\* of the replaced array carries the version read by findOne
PlaceClearSave(c) ==
  /\ calls[c].op = "place" /\ calls[c].pc = "clearSave"
  /\ LET u == calls[c].userId
     IN IF calls[c].cartDirty
        THEN /\ Throws(calls, c, calls[c], Err("VersionError"))
             /\ UNCHANGED carts
        ELSE /\ carts' = [carts EXCEPT ![u].items = <<>>]
             /\ calls' = [Others(c, {}, 0, u) EXCEPT ![c] =
                            [calls[c] EXCEPT !.pc = "commit", !.vis.cart = TRUE]]
             /\ finished' = NoOutcome
  /\ UNCHANGED <<products, orders, invoked>>

\* session.commitTransaction() succeeds: the private writes become visible;
\* finally: session.endSession(); the call returns
Commit(c) ==
  /\ calls[c].pc = "commit"
  /\ LET cl == calls[c]
         oid == IF cl.op = "cancel" THEN cl.orderId ELSE 0
     IN /\ products' = [p \in Products |-> IF p \in cl.wP THEN cl.snapP[p] ELSE products[p]]
        /\ orders' = IF cl.op = "place" THEN Append(orders, cl.order)
                     ELSE [orders EXCEPT ![oid].status = cl.order.status]
        /\ calls' = [Others(c, cl.wP, oid, NoUser) EXCEPT ![c] = IdleCall]
        /\ finished' = Outcome([cl EXCEPT !.vis.prods = @ \cup cl.wP, !.vis.order = TRUE], "ok")
  /\ UNCHANGED <<carts, invoked>>

\* session.commitTransaction() throws (connectivity loss, expired transaction)
CommitFail(c) ==
  /\ calls[c].pc = "commit"
  /\ Throws(calls, c, calls[c], Err("CommitFailed"))
  /\ UNCHANGED <<products, carts, orders, invoked>>

\* a catch block that never aborts: the transaction of a failed call stays open
AbortNever(c) ==
  /\ calls[c].pc = "catch"
  /\ calls' = calls
  /\ finished' = NoOutcome
  /\ UNCHANGED <<products, carts, orders, invoked>>

\* catch: session.abortTransaction(); throw error; finally: session.endSession()
Abort(c) ==
  /\ calls[c].pc = "catch"
  /\ calls' = [calls EXCEPT ![c] = IdleCall]
  /\ finished' = Outcome(calls[c], "failed")
  /\ UNCHANGED <<products, carts, orders, invoked>>

\* --------------------------------------------------------- cancelOrder
\* a restoration that gives back one unit whatever the ordered quantity
RestoreOneUnit(prod, n) == [prod EXCEPT !.quantity = prod.quantity + 1, !.inStock = TRUE]

\* a restoration that leaves the inStock flag as it was
RestoreKeepsFlag(prod, n) == [prod EXCEPT !.quantity = prod.quantity + n]

\* product.quantity += item.quantity; product.inStock = true
Restore(prod, n) == [prod EXCEPT !.quantity = prod.quantity + n, !.inStock = TRUE]

\* the order document another open transaction has written
LockedO(c, o) == \E d \in Calls \ {c} : calls[d].wOrd /\ calls[d].orderId = o

\* a loop that ends at the first item whose product is missing
CancelLoopStops(cl, i) ==
  IF i > Len(cl.order.items) \/ ~cl.snapP[cl.order.items[i].productId].exists
  THEN [cl EXCEPT !.prod = MissingProduct, !.i = Len(cl.order.items) + 1, !.pc = "osave"]
  ELSE [cl EXCEPT !.prod = cl.snapP[cl.order.items[i].productId], !.i = i, !.pc = "csave"]

\* the restoration loop from item i on: Product.findById(...).session(session)
\* reads the snapshot, items whose product is missing are skipped, and the
\* loop stops at the next product to save, or at the order
RECURSIVE CancelLoop(_, _)
CancelLoop(cl, i) ==
  IF i > Len(cl.order.items)
  THEN [cl EXCEPT !.prod = MissingProduct, !.i = i, !.pc = "osave"]
  ELSE IF cl.snapP[cl.order.items[i].productId].exists
  THEN [cl EXCEPT !.prod = cl.snapP[cl.order.items[i].productId], !.i = i, !.pc = "csave"]
  ELSE CancelLoop(cl, i + 1)

\* a check that lets everyone cancel every order
OwnsAny(order, u) == TRUE

\* order.userId.toString() === userId
Owns(order, u) == order.userId = u

\* a check that lets a confirmed order be cancelled as well
CancellableUntilShipped(order) == order.status \in {"pending", "confirmed"}

\* order.status === 'pending'
Cancellable(order) == order.status = "pending"

\* Order.findById(orderId).session(session), which takes the snapshot, and
\* the three checks
CancelBegin(c, o, u) ==
  /\ Free(c)
  /\ invoked < MaxCalls
  /\ invoked' = invoked + 1
  /\ LET cl == [IdleCall EXCEPT !.op = "cancel", !.userId = u, !.orderId = o,
                                !.snap = TRUE, !.snapP = products]
     IN IF o > Len(orders)
        THEN Throws(calls, c, cl, Err("OrderNotFound"))
        ELSE IF ~Owns(orders[o], u)
        THEN Throws(calls, c, cl, Err("Unauthorized"))
        ELSE IF ~Cancellable(orders[o])
        THEN Throws(calls, c, cl, [Err("InvalidCancelState") EXCEPT !.from = orders[o].status])
        ELSE /\ calls' = [calls EXCEPT ![c] = CancelLoop([cl EXCEPT !.order = orders[o]], 1)]
             /\ finished' = NoOutcome
  /\ UNCHANGED <<products, carts, orders>>

\* a product.save() in cancelOrder that leaves the session out writes through
RestoreNoSession == FALSE

\* product.save({ session }) in cancelOrder passes the session
RestoreSession == TRUE

\* the restoration and product.save({ session }), then the loop goes on
CancelSave(c) ==
  /\ calls[c].op = "cancel" /\ calls[c].pc = "csave"
  /\ LET cl == calls[c]
         item == cl.order.items[cl.i]
         p == item.productId
         doc == Restore(cl.prod, item.quantity)
     IN IF RestoreSession
        THEN /\ IF ConflictP(c, p)
                THEN Conflict(calls, c, cl)
                ELSE /\ calls' = [calls EXCEPT ![c] =
                          CancelLoop([cl EXCEPT !.snapP[p] = doc, !.wP = @ \cup {p}], cl.i + 1)]
                     /\ finished' = NoOutcome
             /\ UNCHANGED products
        ELSE /\ ~LockedP(c, p)
             /\ products' = [products EXCEPT ![p] = doc]
             /\ calls' = [Others(c, {p}, 0, NoUser) EXCEPT ![c] =
                            CancelLoop([cl EXCEPT !.vis.prods = @ \cup {p}], cl.i + 1)]
             /\ finished' = NoOutcome
  /\ UNCHANGED <<carts, orders, invoked>>

\* order.status = 'cancelled'; order.save({ session })
CancelSaveOrder(c) ==
  /\ calls[c].op = "cancel" /\ calls[c].pc = "osave"
  /\ IF calls[c].staleOrd \/ LockedO(c, calls[c].orderId)
     THEN Conflict(calls, c, calls[c])
     ELSE /\ calls' = [calls EXCEPT ![c].order.status = "cancelled", ![c].wOrd = TRUE,
                                    ![c].pc = "commit"]
          /\ finished' = NoOutcome
  /\ UNCHANGED <<products, carts, orders, invoked>>

\* --------------------------------------------------- updateOrderStatus
\* a transition table that lets a pending order be shipped
validTransitionsSkip ==
  [s \in Statuses |->
     CASE s = "pending" -> {"confirmed", "shipped", "cancelled"}
       [] s = "confirmed" -> {"shipped", "cancelled"}
       [] s = "shipped" -> {"delivered"}
       [] s = "delivered" -> {}
       [] s = "cancelled" -> {}]

validTransitions ==
  [s \in Statuses |->
     CASE s = "pending" -> {"confirmed", "cancelled"}
       [] s = "confirmed" -> {"shipped", "cancelled"}
       [] s = "shipped" -> {"delivered"}
       [] s = "delivered" -> {}
       [] s = "cancelled" -> {}]

\* Order.findById(orderId) without session, then the transition check
UpdateBegin(c, o, s) ==
  /\ Free(c)
  /\ invoked < MaxCalls
  /\ invoked' = invoked + 1
  /\ LET cl == [IdleCall EXCEPT !.op = "update", !.orderId = o, !.newStatus = s]
     IN IF o > Len(orders)
        THEN /\ finished' = Outcome([cl EXCEPT !.err = Err("OrderNotFound")], "failed")
             /\ UNCHANGED calls
        ELSE IF s \notin validTransitions[orders[o].status]
        THEN /\ finished' = Outcome([cl EXCEPT !.order = orders[o], !.err =
                                 [Err("InvalidTransition") EXCEPT !.from = orders[o].status,
                                                                  !.to = s]], "failed")
             /\ UNCHANGED calls
        ELSE /\ finished' = NoOutcome
             /\ calls' = [calls EXCEPT ![c] = [cl EXCEPT !.order = orders[o], !.pc = "usave"]]
  /\ UNCHANGED <<products, carts, orders>>

\* an update that, like cancelOrder, gives the stock of the order back when
\* the new status is cancelled
UpdateSaveRestocks(c) ==
  /\ calls[c].op = "update" /\ calls[c].pc = "usave"
  /\ ~LockedO(c, calls[c].orderId)
  /\ orders' = [orders EXCEPT ![calls[c].orderId].status = calls[c].newStatus]
  /\ LET items == orders[calls[c].orderId].items
     IN products' = [p \in Products |->
          IF calls[c].newStatus = "cancelled" /\ products[p].exists
             /\ \E j \in 1..Len(items) : items[j].productId = p
          THEN Restore(products[p],
                       items[CHOOSE j \in 1..Len(items) : items[j].productId = p].quantity)
          ELSE products[p]]
  /\ calls' = [Others(c, {}, calls[c].orderId, NoUser) EXCEPT ![c] = IdleCall]
  /\ finished' = Outcome([calls[c] EXCEPT !.vis.order = TRUE], "ok")
  /\ UNCHANGED <<carts, invoked>>

\* order.status = newStatus; order.save() without session: waits while an
\* open transaction holds the document, then sets the status field
UpdateSave(c) ==
  /\ calls[c].op = "update" /\ calls[c].pc = "usave"
  /\ ~LockedO(c, calls[c].orderId)
  /\ orders' = [orders EXCEPT ![calls[c].orderId].status = calls[c].newStatus]
  /\ calls' = [Others(c, {}, calls[c].orderId, NoUser) EXCEPT ![c] = IdleCall]
  /\ finished' = Outcome([calls[c] EXCEPT !.vis.order = TRUE], "ok")
  /\ UNCHANGED <<products, carts, invoked>>

\* ------------------------------------------------- cart and catalog
IndexOf(items, p) ==
  IF \E j \in 1..Len(items) : items[j].productId = p
  THEN CHOOSE j \in 1..Len(items) : items[j].productId = p
  ELSE 0

\* addItemToCart(userId, productId, quantity), the path that saves the cart
AddItemToCart(u, p, n) ==
  /\ products[p].exists
  /\ products[p].inStock /\ products[p].quantity >= n
  /\ LET items == carts[u].items
         idx == IndexOf(items, p)
     IN IF idx > 0
        THEN /\ products[p].quantity >= items[idx].quantity + n
             /\ carts' = [carts EXCEPT ![u].items[idx].quantity = @ + n]
             /\ UNCHANGED calls
        ELSE /\ carts' = [carts EXCEPT ![u] =
                  [exists |-> TRUE, items |-> Append(items, [productId |-> p, quantity |-> n])]]
             /\ calls' = Others("", {}, 0, u)
  /\ finished' = NoOutcome
  /\ UNCHANGED <<products, orders, invoked>>

\* updateCartItem(userId, productId, quantity), the path that saves the cart:
\* the quantity of an item of the cart is set; the save of one field of an
\* array element does not increment the version of the cart
UpdateCartItem(u, p, n) ==
  /\ products[p].exists
  /\ products[p].quantity >= n
  /\ carts[u].exists
  /\ IndexOf(carts[u].items, p) > 0
  /\ carts' = [carts EXCEPT ![u].items[IndexOf(carts[u].items, p)].quantity = n]
  /\ finished' = NoOutcome
  /\ UNCHANGED <<products, orders, calls, invoked>>

LockedAny(p) == \E d \in Calls : p \in calls[d].wP

\* updateProduct(id, { price }): findByIdAndUpdate without session
UpdatePrice(p, pr) ==
  /\ products[p].exists /\ products[p].price # pr
  /\ ~LockedAny(p)
  /\ products' = [products EXCEPT ![p].price = pr]
  /\ calls' = Others("", {p}, 0, NoUser)
  /\ finished' = NoOutcome
  /\ UNCHANGED <<carts, orders, invoked>>

\* a rename that rewrites the name in the items of the stored orders as well
UpdateNameCascades(p, nm) ==
  /\ products[p].exists /\ products[p].name # nm
  /\ ~LockedAny(p)
  /\ products' = [products EXCEPT ![p].name = nm]
  /\ orders' = [o \in 1..Len(orders) |->
                  [orders[o] EXCEPT !.items =
                     [j \in 1..Len(@) |->
                        IF @[j].productId = p THEN [@[j] EXCEPT !.name = nm] ELSE @[j]]]]
  /\ calls' = Others("", {p}, 0, NoUser)
  /\ finished' = NoOutcome
  /\ UNCHANGED <<carts, invoked>>

\* updateProduct(id, { name }): findByIdAndUpdate without session
UpdateName(p, nm) ==
  /\ products[p].exists /\ products[p].name # nm
  /\ ~LockedAny(p)
  /\ products' = [products EXCEPT ![p].name = nm]
  /\ calls' = Others("", {p}, 0, NoUser)
  /\ finished' = NoOutcome
  /\ UNCHANGED <<carts, orders, invoked>>

\* deleteProduct(id): findByIdAndDelete without session
DeleteProduct(p) ==
  /\ products[p].exists
  /\ ~LockedAny(p)
  /\ products' = [products EXCEPT ![p] = MissingProduct]
  /\ calls' = Others("", {p}, 0, NoUser)
  /\ finished' = NoOutcome
  /\ UNCHANGED <<carts, orders, invoked>>

\* -------------------------------------------------- getOrderStatistics
\* { $sum: '$totalAmount' } over the orders with index in idx
RECURSIVE SumTotalAmount(_, _)
SumTotalAmount(ords, idx) ==
  IF idx = {} THEN 0
  ELSE LET i == CHOOSE i \in idx : TRUE
       IN ords[i].totalAmount + SumTotalAmount(ords, idx \ {i})

\* Order.aggregate([{ $group: { _id: '$status', count, totalAmount } }])
GroupByStatus(ords) ==
  {[id |-> s,
    count |-> Cardinality({i \in 1..Len(ords) : ords[i].status = s}),
    totalAmount |-> SumTotalAmount(ords, {i \in 1..Len(ords) : ords[i].status = s})] :
     s \in {ords[i].status : i \in 1..Len(ords)}}

\* a revenue query without the $match stage
TotalRevenueUnmatched(ords) == SumTotalAmount(ords, 1..Len(ords))

\* Order.aggregate([{ $match: { status: { $ne: 'cancelled' } } },
\* { $group: { _id: null, total } }]) and totalRevenue[0]?.total || 0
TotalRevenue(ords) ==
  LET matched == {i \in 1..Len(ords) : ords[i].status # "cancelled"}
      groups == IF matched = {} THEN <<>> ELSE <<[total |-> SumTotalAmount(ords, matched)]>>
  IN IF groups = <<>> THEN 0 ELSE groups[1].total

\* the first query: the groups by status
StatsBegin(c) ==
  /\ Free(c)
  /\ invoked < MaxCalls
  /\ invoked' = invoked + 1
  /\ calls' = [calls EXCEPT ![c] =
       [IdleCall EXCEPT !.op = "stats", !.pc = "count", !.stats.byStatus = GroupByStatus(orders)]]
  /\ finished' = NoOutcome
  /\ UNCHANGED <<products, carts, orders>>

\* Order.countDocuments()
StatsCount(c) ==
  /\ calls[c].op = "stats" /\ calls[c].pc = "count"
  /\ calls' = [calls EXCEPT ![c].stats.totalOrders = Len(orders), ![c].pc = "revenue"]
  /\ finished' = NoOutcome
  /\ UNCHANGED <<products, carts, orders, invoked>>

\* the revenue query; the call returns the three results
StatsRevenue(c) ==
  /\ calls[c].op = "stats" /\ calls[c].pc = "revenue"
  /\ calls' = [calls EXCEPT ![c] = IdleCall]
  /\ finished' = Outcome([calls[c] EXCEPT !.stats.totalRevenue = TotalRevenue(orders)], "ok")
  /\ UNCHANGED <<products, carts, orders, invoked>>

\* --------------------------------------------------- order controller
\* createOrder of the controller, for an authenticated customer: the status
\* code it answers for the outcome of createOrderFromCart
createOrder(outcome) ==
  IF outcome.result = "ok" THEN 201
  ELSE IF outcome.err.kind = "EmptyCart" THEN 400
  ELSE 500

\* ------------------------------------------------------ specification
\* the order engine under concurrent requests: two calls in flight at a time,
\* the carts filled by their users, the catalog left alone
Next ==
  \/ \E c \in Calls, u \in Users : PlaceBegin(c, u)
  \/ \E c \in Calls : PlaceFind(c)
  \/ \E c \in Calls : PlaceSave(c)
  \/ \E c \in Calls : PlaceClearFind(c)
  \/ \E c \in Calls : PlaceClearSave(c)
  \/ \E c \in Calls : Commit(c)
  \/ \E c \in Calls : CommitFail(c)
  \/ \E c \in Calls : Abort(c)
  \/ \E c \in Calls, o \in 1..MaxOrders, u \in Users : CancelBegin(c, o, u)
  \/ \E c \in Calls : CancelSave(c)
  \/ \E c \in Calls : CancelSaveOrder(c)
  \/ \E c \in Calls, o \in 1..MaxOrders, s \in Statuses : UpdateBegin(c, o, s)
  \/ \E c \in Calls : UpdateSave(c)
  \/ \E p \in Products, n \in 1..MaxQty : AddItemToCart("u1", p, n)
  \/ \E n \in 1..MaxQty : AddItemToCart("u2", "p1", n)

Spec == Init /\ [][Next]_vars

\* the order engine serving one request at a time while the catalog changes
\* under it: a price is edited and a product is deleted between any two steps
\* of a call
NextCatalog ==
  \/ \E u \in Users : PlaceBegin("c1", u)
  \/ PlaceFind("c1")
  \/ PlaceSave("c1")
  \/ PlaceClearFind("c1")
  \/ PlaceClearSave("c1")
  \/ Commit("c1")
  \/ CommitFail("c1")
  \/ Abort("c1")
  \/ \E o \in 1..MaxOrders, u \in Users : CancelBegin("c1", o, u)
  \/ CancelSave("c1")
  \/ CancelSaveOrder("c1")
  \/ \E o \in 1..MaxOrders, s \in Statuses : UpdateBegin("c1", o, s)
  \/ UpdateSave("c1")
  \/ \E p \in Products, n \in 1..MaxQty : AddItemToCart("u1", p, n)
  \/ \E n \in 1..MaxQty : AddItemToCart("u2", "p1", n)
  \/ \E pr \in 1..MaxPrice : UpdatePrice("p1", pr)
  \/ \E p \in Products : DeleteProduct(p)

SpecCatalog == Init /\ [][NextCatalog]_vars

\* the life of one order: the store after u1 has ordered one unit of p1 and
\* the order has been moved along the graph, then cancellations and status
\* updates of it under concurrent requests
PlacedOrder(s) ==
  [NewOrder("u1", <<OrderItem("p1", SeedProduct(MaxQty, 1), 1)>>) EXCEPT !.status = s]

InitStatus ==
  /\ products = [p \in Products |->
                   IF p = "p1" THEN Decrement(SeedProduct(MaxQty, 1), 1) ELSE SeedProduct(1, 1)]
  /\ carts = [u \in Users |-> IF u = "u1" THEN [exists |-> TRUE, items |-> <<>>] ELSE NoCart]
  /\ \E s \in Statuses \ {"cancelled"} : orders = <<PlacedOrder(s)>>
  /\ calls = [c \in Calls |-> IdleCall]
  /\ invoked = 0
  /\ finished = NoOutcome

NextStatus ==
  \/ \E c \in Calls, o \in 1..MaxOrders, u \in Users : CancelBegin(c, o, u)
  \/ \E c \in Calls : CancelSave(c)
  \/ \E c \in Calls : CancelSaveOrder(c)
  \/ \E c \in Calls : Commit(c)
  \/ \E c \in Calls : CommitFail(c)
  \/ \E c \in Calls : Abort(c)
  \/ \E c \in Calls, o \in 1..MaxOrders, s \in Statuses : UpdateBegin(c, o, s)
  \/ \E c \in Calls : UpdateSave(c)

SpecStatus == InitStatus /\ [][NextStatus]_vars

\* one customer alone with the catalog: u1 fills the cart, places orders and
\* cancels them, one request at a time, and nothing else touches a product
NextRoundTrip ==
  \/ \E p \in Products, n \in 1..MaxQty : AddItemToCart("u1", p, n)
  \/ PlaceBegin("c1", "u1")
  \/ PlaceFind("c1")
  \/ PlaceSave("c1")
  \/ PlaceClearFind("c1")
  \/ PlaceClearSave("c1")
  \/ Commit("c1")
  \/ CommitFail("c1")
  \/ Abort("c1")
  \/ \E o \in 1..MaxOrders : CancelBegin("c1", o, "u1")
  \/ CancelSave("c1")
  \/ CancelSaveOrder("c1")

SpecRoundTrip == Init /\ [][NextRoundTrip]_vars

\* the statistics of a fixed set of orders: the store holds up to MaxOrders
\* orders of u1 for p1, of any quantity and in any status (a cancelled order
\* has given its stock back), and only getOrderStatistics runs
StatsOrder(n, s) ==
  [NewOrder("u1", <<OrderItem("p1", SeedProduct(MaxQty, 1), n)>>) EXCEPT !.status = s]

RECURSIVE HeldStock(_)
HeldStock(ords) ==
  IF ords = <<>> THEN 0
  ELSE (IF Head(ords).status = "cancelled" THEN 0 ELSE Head(ords).items[1].quantity)
       + HeldStock(Tail(ords))

InitStats ==
  /\ \E k \in 0..MaxOrders :
       \E qs \in [1..k -> 1..MaxQty], ss \in [1..k -> Statuses] :
         orders = [i \in 1..k |-> StatsOrder(qs[i], ss[i])]
  /\ HeldStock(orders) <= MaxQty
  /\ products = [p \in Products |->
                   SeedProduct(IF p = "p1" THEN MaxQty - HeldStock(orders) ELSE 1, 1)]
  /\ carts = [u \in Users |-> IF u = "u1" THEN [exists |-> TRUE, items |-> <<>>] ELSE NoCart]
  /\ calls = [c \in Calls |-> IdleCall]
  /\ invoked = 0
  /\ finished = NoOutcome

NextStats ==
  \/ StatsBegin("c1")
  \/ StatsCount("c1")
  \/ StatsRevenue("c1")

SpecStats == InitStats /\ [][NextStats]_vars

\* the orders of one customer while the vendor edits the product: u1 orders
\* p1, cancels, the admin moves the orders along, and the name and the price
\* of p1 change between any two steps
NextSnapshot ==
  \/ \E n \in 1..MaxQty : AddItemToCart("u1", "p1", n)
  \/ PlaceBegin("c1", "u1")
  \/ PlaceFind("c1")
  \/ PlaceSave("c1")
  \/ PlaceClearFind("c1")
  \/ PlaceClearSave("c1")
  \/ Commit("c1")
  \/ CommitFail("c1")
  \/ Abort("c1")
  \/ \E o \in 1..MaxOrders : CancelBegin("c1", o, "u1")
  \/ CancelSave("c1")
  \/ CancelSaveOrder("c1")
  \/ \E o \in 1..MaxOrders, s \in Statuses : UpdateBegin("c1", o, s)
  \/ UpdateSave("c1")
  \/ \E pr \in 1..MaxPrice : UpdatePrice("p1", pr)
  \/ \E nm \in Names : UpdateName("p1", nm)

SpecSnapshot == Init /\ [][NextSnapshot]_vars

\* the next step of the call in slot c after its first one: each awaited
\* store operation of createOrderFromCart and cancelOrder, the catch block
\* and the finally block
CallStep(c) ==
  \/ PlaceFind(c)
  \/ PlaceSave(c)
  \/ PlaceClearFind(c)
  \/ PlaceClearSave(c)
  \/ CancelSave(c)
  \/ CancelSaveOrder(c)
  \/ Commit(c)
  \/ CommitFail(c)
  \/ Abort(c)

\* two concurrent requests of one customer for one product, where every
\* operation on the store eventually returns or fails: a call that can take
\* its next step (a query, a save, the commit or its failure, the abort)
\* eventually takes it
NextFair ==
  \/ \E n \in 1..MaxQty : AddItemToCart("u1", "p1", n)
  \/ \E c \in Calls : PlaceBegin(c, "u1")
  \/ \E c \in Calls, o \in 1..MaxOrders : CancelBegin(c, o, "u1")
  \/ \E c \in Calls : CallStep(c)

SpecFair == Init /\ [][NextFair]_vars /\ \A c \in Calls : WF_vars(CallStep(c))

\* one cart, two requests: u1 has put one unit of p1 into the cart, p1 has
\* stock for more than one such order, and only PlaceOrder requests of u1 run,
\* so that every order created is an order for this one cart
InitOneCart ==
  /\ products = [p \in Products |-> SeedProduct(IF p = "p1" THEN MaxQty ELSE 1, 1)]
  /\ carts = [u \in Users |->
                IF u = "u1"
                THEN [exists |-> TRUE, items |-> <<[productId |-> "p1", quantity |-> 1]>>]
                ELSE NoCart]
  /\ orders = <<>>
  /\ calls = [c \in Calls |-> IdleCall]
  /\ invoked = 0
  /\ finished = NoOutcome

NextOneCart ==
  \/ \E c \in Calls : PlaceBegin(c, "u1")
  \/ \E c \in Calls : PlaceFind(c)
  \/ \E c \in Calls : PlaceSave(c)
  \/ \E c \in Calls : PlaceClearFind(c)
  \/ \E c \in Calls : PlaceClearSave(c)
  \/ \E c \in Calls : Commit(c)
  \/ \E c \in Calls : CommitFail(c)
  \/ \E c \in Calls : Abort(c)

SpecOneCart == InitOneCart /\ [][NextOneCart]_vars

\* one customer who keeps editing the cart while an order is placed: u1 adds
\* items and changes quantities between any two steps of createOrderFromCart
NextCart ==
  \/ \E p \in Products, n \in 1..MaxQty : AddItemToCart("u1", p, n)
  \/ \E p \in Products, n \in 1..MaxQty : UpdateCartItem("u1", p, n)
  \/ PlaceBegin("c1", "u1")
  \/ PlaceFind("c1")
  \/ PlaceSave("c1")
  \/ PlaceClearFind("c1")
  \/ PlaceClearSave("c1")
  \/ Commit("c1")
  \/ CommitFail("c1")
  \/ Abort("c1")

SpecCart == Init /\ [][NextCart]_vars

\* the statistics while the orders change: getOrderStatistics runs in slot c1
\* and between any two of its three queries a PlaceOrder, CancelOrder or
\* UpdateOrderStatus call of slot c2 may take steps and commit
NextStatsRace ==
  \/ StatsBegin("c1")
  \/ StatsCount("c1")
  \/ StatsRevenue("c1")
  \/ \E n \in 1..MaxQty : AddItemToCart("u1", "p1", n)
  \/ PlaceBegin("c2", "u1")
  \/ PlaceFind("c2")
  \/ PlaceSave("c2")
  \/ PlaceClearFind("c2")
  \/ PlaceClearSave("c2")
  \/ \E o \in 1..MaxOrders : CancelBegin("c2", o, "u1")
  \/ CancelSave("c2")
  \/ CancelSaveOrder("c2")
  \/ Commit("c2")
  \/ CommitFail("c2")
  \/ Abort("c2")
  \/ \E o \in 1..MaxOrders, s \in Statuses : UpdateBegin("c2", o, s)
  \/ UpdateSave("c2")

SpecStatsRace == InitStats /\ [][NextStatsRace]_vars

TypeOK ==
  /\ \A p \in Products : products[p].quantity \in Int
  /\ Len(orders) <= MaxOrders

\* ------------------------------------------------------------ properties
CartProducts(cart) == {cart[j].productId : j \in 1..Len(cart)}

\* the error call c threw in this step, NoErr when it threw none
Thrown(c) ==
  IF calls'[c].pc = "catch" /\ calls[c].pc # "catch" THEN calls'[c].err
  ELSE IF calls[c].pc \notin {"idle", "catch"} /\ calls'[c].pc = "idle"
          /\ finished'.result = "failed"
  THEN finished'.err
  ELSE NoErr

\* call c returned its order in this step
Returned(c) ==
  calls[c].pc # "idle" /\ calls'[c].pc = "idle" /\ finished'.result = "ok"

\* C1: a finished PlaceOrder call, one whose commit failed after the cart was
\* cleared included, has changed the committed store all-or-nothing: the
\* products of its cart, the order and the cart together, or none of them.
C1_AllOrNothing ==
  finished.op = "place" =>
    \/ finished.vis = NoVis
    \/ /\ finished.vis.cart
       /\ finished.vis.order
       /\ finished.vis.prods = CartProducts(finished.cart)

\* a competitor of call c for the stock n of product p: in flight, or
\* already committed
C2_Competitor(c, p, n) ==
  \/ \E d \in Calls \ {c} :
       /\ calls[d].op = "place" /\ calls[d].userId # calls[c].userId
       /\ calls[d].cart = <<[productId |-> p, quantity |-> n]>>
       /\ products[p].quantity = n
  \/ \E o \in 1..Len(orders) :
       /\ orders[o].userId # calls[c].userId /\ orders[o].status = "pending"
       /\ Len(orders[o].items) = 1
       /\ orders[o].items[1].productId = p /\ orders[o].items[1].quantity = n
       /\ products[p].quantity = 0

C2_NotBoth == \A c, d \in Calls : c # d => calls[c].wP \cap calls[d].wP = {}

C2_LoserInsufficient ==
  \A c \in Calls, p \in Products :
    ( /\ calls[c].op = "place"
      /\ Len(calls[c].cart) = 1
      /\ calls[c].cart[1].productId = p
      /\ C2_Competitor(c, p, calls[c].cart[1].quantity)
      /\ Thrown(c) # NoErr )
    => Thrown(c).kind = "InsufficientStock"

\* C2: two concurrent PlaceOrder calls of different users, each from a cart
\* that asks for all the remaining stock n of the same product p: the two
\* never hold a decrement of p together, and the one that fails fails with
\* the insufficient-stock error.
C2_NoOversell == []C2_NotBoth /\ [][C2_LoserInsufficient]_vars

C3_NonNegative == \A p \in Products : products[p].quantity >= 0

C3_CommitDecrements ==
  \A c \in Calls :
    (calls[c].op = "place" /\ Returned(c)) =>
      \A j \in 1..Len(calls[c].cart) :
        LET p == calls[c].cart[j].productId
        IN /\ products'[p].quantity = products[p].quantity - calls[c].cart[j].quantity
           /\ products'[p].quantity >= 0

\* C3: the committed quantity of a product is never negative, and a
\* PlaceOrder call that commits takes each ordered quantity off the quantity
\* committed at that moment, so that the decrements of concurrent calls never
\* add up to more than was available.
C3_NoOverDecrement == []C3_NonNegative /\ [][C3_CommitDecrements]_vars

\* two PlaceOrder calls met on one product: one was refused the write
C3_Witness ==
  /\ finished.op = "place" /\ finished.err.kind = "WriteConflict"
  /\ \E d \in Calls : calls[d].op = "place" /\ calls[d].wP # {}

\* C4: every product of the catalog has inStock = (quantity > 0), whatever
\* PlaceOrder and CancelOrder calls have run.
C4_InStockIffPositive ==
  \A p \in Products :
    products[p].exists => (products[p].inStock <=> products[p].quantity > 0)

\* a cancellation has just put a sold-out product back in stock
C4_Witness ==
  /\ finished.op = "cancel" /\ finished.result = "ok"
  /\ \E j \in 1..Len(finished.order.items) :
       LET it == finished.order.items[j]
       IN products[it.productId].inStock /\ products[it.productId].quantity = it.quantity

RECURSIVE C5_SumTo(_, _)
C5_SumTo(items, k) == IF k = 0 THEN 0 ELSE items[k].subtotal + C5_SumTo(items, k - 1)

C5_TotalsConsistent ==
  \A o \in 1..Len(orders) :
    /\ orders[o].totalAmount = C5_SumTo(orders[o].items, Len(orders[o].items))
    /\ \A j \in 1..Len(orders[o].items) :
         orders[o].items[j].subtotal = orders[o].items[j].price * orders[o].items[j].quantity

C5_Frozen ==
  \A o \in 1..Len(orders) :
    /\ orders'[o].items = orders[o].items
    /\ orders'[o].totalAmount = orders[o].totalAmount

\* C5: the totalAmount of every stored order is the sum of its items'
\* subtotals and every subtotal is price times quantity; no step, a price
\* edit, a cancellation or a status update included, changes the items or the
\* total of a stored order.
C5_TotalFixed == []C5_TotalsConsistent /\ [][C5_Frozen]_vars

\* an order that has left pending holds a price the product no longer has
C5_Witness ==
  \E o \in 1..Len(orders) :
    /\ orders[o].status # "pending"
    /\ \E j \in 1..Len(orders[o].items) :
         LET it == orders[o].items[j]
         IN products[it.productId].exists /\ products[it.productId].price # it.price

C6_ItemFailure == {"ProductNotFound", "InsufficientStock"}

\* a PlaceOrder call that failed on an item has changed no committed document
C6_NothingVisible ==
  /\ \A c \in Calls :
       (calls[c].op = "place" /\ calls[c].pc = "catch" /\ calls[c].err.kind \in C6_ItemFailure)
         => calls[c].vis = NoVis
  /\ (finished.op = "place" /\ finished.err.kind \in C6_ItemFailure)
       => (finished.result = "failed" /\ finished.vis = NoVis)

\* the stock of a product changes, and an order appears, only in the step in
\* which a call returns; a cart loses items only in the clearing step of a
\* PlaceOrder call that has processed every item
C6_Frame ==
  /\ (\E p \in Products :
        /\ products[p].exists /\ products'[p].exists
        /\ \/ products'[p].quantity # products[p].quantity
           \/ products'[p].inStock # products[p].inStock)
       => \E c \in Calls : Returned(c)
  /\ Len(orders') # Len(orders) => \E c \in Calls : calls[c].op = "place" /\ Returned(c)
  /\ \A u \in Users :
       (carts[u].exists /\ (~carts'[u].exists \/ Len(carts'[u].items) < Len(carts[u].items)))
         => \E c \in Calls :
              /\ calls[c].op = "place" /\ calls[c].userId = u /\ calls[c].pc = "clearSave"
              /\ calls[c].i > Len(calls[c].cart)

\* C6: a PlaceOrder call that fails at its k-th item, for a missing product
\* or for insufficient stock, leaves the quantity and inStock of the products
\* of items 1..k-1 as they were, creates no order and leaves the cart its items.
C6_FailureRollsBack == []C6_NothingVisible /\ [][C6_Frame]_vars

\* a call failed at its second item after it had decremented the first
C6_Witness ==
  /\ finished.op = "place" /\ finished.result = "failed"
  /\ finished.err.kind \in C6_ItemFailure /\ finished.err.index = 2
  /\ Len(carts[finished.userId].items) = 2

StatusEdges ==
  {<<"pending", "confirmed">>, <<"pending", "cancelled">>, <<"confirmed", "shipped">>,
   <<"confirmed", "cancelled">>, <<"shipped", "delivered">>}

C7_Accepts ==
  \A c \in Calls :
    (calls[c].pc = "idle" /\ calls'[c].pc = "usave") =>
      /\ calls'[c].orderId \in 1..Len(orders)
      /\ <<orders[calls'[c].orderId].status, calls'[c].newStatus>> \in StatusEdges
      /\ orders' = orders

C7_Rejects ==
  (finished'.op = "update" /\ finished'.result = "failed") =>
    LET o == finished'.orderId
        s == finished'.newStatus
    IN /\ orders' = orders
       /\ IF o \notin 1..Len(orders)
          THEN finished'.err = Err("OrderNotFound")
          ELSE /\ <<orders[o].status, s>> \notin StatusEdges
               /\ finished'.err = [Err("InvalidTransition") EXCEPT !.from = orders[o].status,
                                                                  !.to = s]

C7_Saves ==
  (finished'.op = "update" /\ finished'.result = "ok") =>
    /\ <<finished'.order.status, finished'.newStatus>> \in StatusEdges
    /\ orders' = [orders EXCEPT ![finished'.orderId].status = finished'.newStatus]

\* C7: UpdateOrderStatus goes on to save the new status exactly when
\* (current, new) is one of the five edges of the graph; for every other pair
\* it throws the invalid-transition error naming both and leaves the orders
\* as they are; for an unknown order id it throws order-not-found.
C7_UpdateOnEdgesOnly == [][C7_Accepts /\ C7_Rejects /\ C7_Saves]_vars

\* a request to move a delivered order was refused
C7_Witness ==
  /\ finished.op = "update" /\ finished.result = "failed"
  /\ finished.err.kind = "InvalidTransition" /\ finished.err.from = "delivered"

\* C8: under any interleaving of PlaceOrder, CancelOrder and
\* UpdateOrderStatus calls every change of a stored status follows an edge of
\* the graph, so that a delivered or cancelled order never changes again.
C8_StatusFollowsGraph ==
  [][\A o \in 1..Len(orders) :
       orders'[o].status # orders[o].status
         => <<orders[o].status, orders'[o].status>> \in StatusEdges]_vars

\* the index of the cart item call c finds and checks in this step, 0 when it
\* checks none: the first item, or the item after the one whose save was
\* accepted
C9_Checked(c) ==
  IF calls[c].op # "place" THEN 0
  ELSE IF calls[c].pc = "find" /\ calls'[c].pc # "find" THEN 1
  ELSE IF /\ calls[c].pc = "save" /\ calls'[c].i # calls[c].i
          /\ calls[c].i < Len(calls[c].cart)
          /\ Thrown(c).kind # "WriteConflict"
  THEN calls[c].i + 1
  ELSE 0

\* the product document that check reads: the first find reads the committed
\* collection, a later one the snapshot of the transaction
C9_Read(c, k) ==
  LET pid == calls[c].cart[k].productId
  IN IF pid = NoProduct THEN MissingProduct
     ELSE IF calls[c].pc = "find" THEN products[pid]
     ELSE calls[c].snapP[pid]

C9_CheckStep ==
  \A c \in Calls :
    LET k == C9_Checked(c)
    IN IF k = 0 THEN Thrown(c).kind # "InsufficientStock"
       ELSE LET prod == C9_Read(c, k)
                n == calls[c].cart[k].quantity
            IN /\ Thrown(c).kind = "InsufficientStock"
                    <=> (prod.exists /\ (~prod.inStock \/ prod.quantity < n))
               /\ Thrown(c).kind = "ProductNotFound" <=> ~prod.exists
               /\ Thrown(c).kind = "InsufficientStock" =>
                    /\ Thrown(c).available = prod.quantity
                    /\ Thrown(c).requested = n
                    /\ Thrown(c).index = k
                    /\ products' = products
                    /\ orders' = orders

C9_NothingVisible ==
  finished.err.kind = "InsufficientStock" =>
    (finished.op = "place" /\ finished.result = "failed" /\ finished.vis = NoVis)

\* C9: PlaceOrder throws the insufficient-stock error, carrying the available
\* and the requested quantity, exactly when the first cart item that cannot
\* be fulfilled refers to an existing product that is out of stock or holds
\* less than requested; the call then changes no product and creates no order.
C9_InsufficientExactly == []C9_NothingVisible /\ [][C9_CheckStep]_vars

\* the second item asked for more than was left, after the first was taken
C9_Witness ==
  /\ finished.op = "place" /\ finished.err.kind = "InsufficientStock"
  /\ finished.err.index = 2 /\ finished.err.available < finished.err.requested

\* the quantity cart asks of product p
C10_Ordered(cart, p) ==
  IF \E j \in 1..Len(cart) : cart[j].productId = p
  THEN cart[CHOOSE j \in 1..Len(cart) : cart[j].productId = p].quantity
  ELSE 0

C10_Returns ==
  \A c \in Calls :
    (calls[c].op = "place" /\ Returned(c)) =>
      LET cart == calls[c].cart
          o == orders'[Len(orders')]
      IN /\ orders' = Append(orders, o)
         /\ finished'.order = o
         /\ o.userId = calls[c].userId
         /\ o.status = "pending"
         /\ Len(o.items) = Len(cart) /\ Len(cart) >= 1
         /\ \A j \in 1..Len(cart) :
              /\ o.items[j].productId = cart[j].productId
              /\ o.items[j].quantity = cart[j].quantity
              /\ o.items[j].subtotal = o.items[j].price * cart[j].quantity
         /\ o.totalAmount = C5_SumTo(o.items, Len(o.items))
         /\ \A p \in Products :
              /\ products'[p].exists
              /\ products'[p].quantity = products[p].quantity - C10_Ordered(cart, p)
         /\ finished'.vis.cart

C10_Clears ==
  \A c \in Calls :
    (calls[c].pc = "clearSave" /\ calls'[c].pc = "commit") =>
      carts'[calls[c].userId] = [exists |-> TRUE, items |-> <<>>]

\* C10: a PlaceOrder call that returns has appended exactly one order, owned
\* by its user, pending, with one item per cart item in cart order (at least
\* one) and the sum of the subtotals as totalAmount; it has taken exactly the
\* ordered quantity off every product of the cart and no other; and its
\* clearing step has left the user's cart existing with an empty item list.
C10_PlaceOrderEffect == [][C10_Returns /\ C10_Clears]_vars

\* an order of two items has been placed and the cart is empty
C10_Witness ==
  /\ finished.op = "place" /\ finished.result = "ok"
  /\ Len(finished.cart) = 2
  /\ carts[finished.userId] = [exists |-> TRUE, items |-> <<>>]

C11_Returns ==
  \A c \in Calls :
    (calls[c].op = "cancel" /\ Returned(c)) =>
      LET o == calls[c].orderId
          items == orders[o].items
      IN /\ orders[o].status = "pending"
         /\ orders[o].userId = calls[c].userId
         /\ orders' = [orders EXCEPT ![o].status = "cancelled"]
         /\ \A p \in Products :
              products'[p] =
                IF products[p].exists /\ C10_Ordered(items, p) > 0
                THEN [products[p] EXCEPT !.quantity = @ + C10_Ordered(items, p),
                                         !.inStock = TRUE]
                ELSE products[p]

\* C11: a CancelOrder call of the owner that returns has added the quantity
\* of every order item back to its product, set that product's inStock to
\* true and set the status of the order, which was pending, to cancelled.
C11_CancelEffect == [][C11_Returns]_vars

\* an order of two items has been cancelled, one of its products was sold out
C11_Witness ==
  /\ finished.op = "cancel" /\ finished.result = "ok"
  /\ Len(finished.order.items) = 2
  /\ orders[finished.orderId].status = "cancelled"
  /\ \E j \in 1..2 :
       products[finished.order.items[j].productId].quantity = finished.order.items[j].quantity

\* a CancelOrder call is invoked in this step, on order o for user u
C12_Invoked(o, u) ==
  /\ invoked' = invoked + 1
  /\ \/ finished'.op = "cancel" /\ finished'.orderId = o /\ finished'.userId = u
     \/ \E c \in Calls : /\ calls[c].pc = "idle" /\ calls'[c].op = "cancel"
                         /\ calls'[c].orderId = o /\ calls'[c].userId = u

\* that call threw e at once and the step changed no document
C12_Refused(e) ==
  /\ finished'.op = "cancel" /\ finished'.result = "failed" /\ finished'.err = e
  /\ finished'.vis = NoVis
  /\ calls' = calls
  /\ products' = products /\ orders' = orders /\ carts' = carts

C12_NotPending ==
  \A o \in 1..Len(orders), u \in Users :
    (C12_Invoked(o, u) /\ orders[o].userId = u) =>
      IF orders[o].status = "pending"
      THEN finished'.op # "cancel"
      ELSE C12_Refused([Err("InvalidCancelState") EXCEPT !.from = orders[o].status])

\* C12: CancelOrder by the owner on an order that is confirmed, shipped,
\* delivered or cancelled throws the invalid-cancel-state error naming that
\* status and changes no product, no flag and no order, so that a second
\* cancellation restores nothing; on a pending order it is not refused.
C12_OnlyPendingCancellable == [][C12_NotPending]_vars

\* the owner tried to cancel an order that was cancelled already
C12_Witness ==
  /\ finished.op = "cancel" /\ finished.result = "failed"
  /\ finished.err.kind = "InvalidCancelState" /\ finished.err.from = "cancelled"
  /\ orders[finished.orderId].userId = finished.userId

C13_NotOwnerOrMissing ==
  \A o \in 1..MaxOrders, u \in Users :
    C12_Invoked(o, u) =>
      IF o > Len(orders) THEN C12_Refused(Err("OrderNotFound"))
      ELSE IF orders[o].userId # u THEN C12_Refused(Err("Unauthorized"))
      ELSE finished'.err.kind \notin {"OrderNotFound", "Unauthorized"}

\* C13: CancelOrder by a user who does not own the order throws the
\* unauthorized error whatever the status of the order, and CancelOrder on an
\* id no order has throws order-not-found; either changes no order and no
\* product.
C13_CancelGuards == [][C13_NotOwnerOrMissing]_vars

\* a user was refused the cancellation of another user's delivered order
C13_Witness ==
  /\ finished.op = "cancel" /\ finished.err.kind = "Unauthorized"
  /\ orders[finished.orderId].status = "delivered"

\* the existing products the items of an order refer to
C14_Restorable(items) ==
  {p \in Products : products[p].exists /\ \E j \in 1..Len(items) : items[j].productId = p}

\* a finished CancelOrder call has changed the order and every product to
\* restore, or no document at all; a call that failed holds nothing visible
C14_AllOrNothing ==
  /\ finished.op = "cancel" =>
       \/ finished.result = "failed" /\ finished.vis = NoVis
       \/ /\ finished.result = "ok" /\ finished.vis.order
          /\ finished.vis.prods = C14_Restorable(finished.order.items)
  /\ \A c \in Calls : (calls[c].op = "cancel" /\ calls[c].pc = "catch") => calls[c].vis = NoVis

\* stock comes back, and an order turns cancelled by cancellation, only in
\* the step in which a CancelOrder call returns; a call that fails leaves the
\* order as it read it
C14_Together ==
  /\ (\E p \in Products : products[p].exists /\ products'[p].quantity > products[p].quantity)
       => \E c \in Calls : calls[c].op = "cancel" /\ Returned(c)
                           /\ orders'[calls[c].orderId].status = "cancelled"
  /\ \A c \in Calls :
       (calls[c].op = "cancel" /\ calls'[c].pc = "idle" /\ calls[c].pc # "idle" /\ ~Returned(c))
         => products' = products /\ orders' = orders

\* C14: the restorations of a CancelOrder call and the status change to
\* cancelled become visible together, when the call returns, or not at all:
\* a call that fails after it has restored products keeps no restored
\* quantity and leaves the order pending.
C14_CancelAtomic == []C14_AllOrNothing /\ [][C14_Together]_vars

\* a cancellation failed at its second product after it had restored the first
C14_Witness ==
  /\ finished.op = "cancel" /\ finished.result = "failed"
  /\ finished.err.kind = "WriteConflict" /\ finished.err.index = 2
  /\ orders[finished.orderId].status = "pending"

\* C15: round trip. When PlaceOrder and CancelOrder of the created order are
\* the only operations on a product that was in stock with quantity q, the
\* cancellation that undoes the last open order leaves the product with
\* quantity q and inStock true.
C15_RoundTrip ==
  ( /\ finished.op = "cancel" /\ finished.result = "ok"
    /\ \A o \in 1..Len(orders) : orders[o].status = "cancelled" )
  => \A p \in Products :
       products[p] = SeedProduct(IF p = "p1" THEN MaxQty ELSE 1, 1)

\* the order took the whole stock of a product and has been cancelled
C15_Witness ==
  /\ finished.op = "cancel" /\ finished.result = "ok"
  /\ \A o \in 1..Len(orders) : orders[o].status = "cancelled"
  /\ \E j \in 1..Len(finished.order.items) : finished.order.items[j].quantity = MaxQty

\* a PlaceOrder call is invoked in this step for user u
C16_Invoked(u) ==
  /\ invoked' = invoked + 1
  /\ \/ finished'.op = "place" /\ finished'.userId = u
     \/ \E c \in Calls : calls[c].pc = "idle" /\ calls'[c].op = "place" /\ calls'[c].userId = u

C16_EmptyRefused ==
  /\ \A u \in Users :
       C16_Invoked(u) =>
         IF (~carts[u].exists) \/ carts[u].items = <<>>
         THEN /\ finished'.result = "failed" /\ finished'.err = Err("EmptyCart")
              /\ finished'.vis = NoVis
              /\ calls' = calls
              /\ products' = products /\ orders' = orders /\ carts' = carts
         ELSE finished'.op # "place"
  /\ \A c \in Calls : Thrown(c).kind # "EmptyCart"

\* C16: PlaceOrder for a user whose cart is missing or holds no item throws
\* the empty-cart error at once and changes no product, order or cart; with
\* an item in the cart it does not.
C16_EmptyCartRefused == [][C16_EmptyRefused]_vars

\* a second PlaceOrder found the cart emptied by the first
C16_Witness ==
  /\ finished.op = "place" /\ finished.err.kind = "EmptyCart"
  /\ carts[finished.userId].exists
  /\ \E o \in 1..Len(orders) : orders[o].userId = finished.userId

\* C17: the place-order endpoint answers 201 when the order is created, 400
\* when the cart is empty, 400 when stock is insufficient and 404 when the
\* product of a cart item does not exist.
C17_PlaceOrderCodes ==
  finished.op = "place" =>
    /\ finished.result = "ok" => createOrder(finished) = 201
    /\ finished.err.kind = "EmptyCart" => createOrder(finished) = 400
    /\ finished.err.kind = "InsufficientStock" => createOrder(finished) = 400
    /\ finished.err.kind = "ProductNotFound" => createOrder(finished) = 404

\* the sum of totalAmount over the first k orders whose status is in S
RECURSIVE C18_Sum(_, _)
C18_Sum(k, S) ==
  IF k = 0 THEN 0
  ELSE (IF orders[k].status \in S THEN orders[k].totalAmount ELSE 0) + C18_Sum(k - 1, S)

C18_Count(s) == Cardinality({o \in 1..Len(orders) : orders[o].status = s})

C18_Result ==
  (finished.op = "stats") =>
    LET st == finished.stats
    IN /\ finished.result = "ok"
       /\ \A s \in Statuses :
            LET groups == {g \in st.byStatus : g.id = s}
            IN IF C18_Count(s) = 0 THEN groups = {}
               ELSE groups = {[id |-> s, count |-> C18_Count(s),
                               totalAmount |-> C18_Sum(Len(orders), {s})]}
       /\ \A g \in st.byStatus : g.id \in Statuses
       /\ st.totalOrders = Len(orders)
       /\ st.totalRevenue = C18_Sum(Len(orders), Statuses \ {"cancelled"})

C18_ReadOnly ==
  (\E c \in Calls : calls[c].op = "stats" \/ calls'[c].op = "stats")
    => (products' = products /\ orders' = orders /\ carts' = carts)

\* C18: over a fixed set of orders getOrderStatistics returns one group per
\* status that occurs, with the count and the sum of totalAmount of the
\* orders in it; totalOrders, the number of all orders; and totalRevenue, the
\* sum of totalAmount over the orders that are not cancelled, 0 when there
\* are none; and it changes no document.
C18_Statistics == []C18_Result /\ [][C18_ReadOnly]_vars

\* statistics over a cancelled order and an order in another status
C18_Witness ==
  /\ finished.op = "stats"
  /\ Cardinality(finished.stats.byStatus) = 2
  /\ \E g \in finished.stats.byStatus : g.id = "cancelled"
  /\ finished.stats.totalRevenue > 0

C19_ItemsKept ==
  \A o \in 1..Len(orders) :
    /\ Len(orders'[o].items) = Len(orders[o].items)
    /\ \A j \in 1..Len(orders[o].items) :
         LET old == orders[o].items[j]
             new == orders'[o].items[j]
         IN /\ new.productId = old.productId
            /\ new.name = old.name
            /\ new.price = old.price
            /\ new.quantity = old.quantity
            /\ new.subtotal = old.subtotal

\* C19: the items of a stored order are a snapshot: no step of PlaceOrder,
\* CancelOrder or UpdateOrderStatus and no later change of the product's
\* name or price changes the productId, name, price, quantity or subtotal of
\* an item, or the number of items.
C19_ItemsImmutable == [][C19_ItemsKept]_vars

\* a cancelled order still shows the name and the price the product had
C19_Witness ==
  \E o \in 1..Len(orders) :
    /\ orders[o].status = "cancelled"
    /\ LET it == orders[o].items[1]
       IN /\ products[it.productId].exists
          /\ products[it.productId].name # it.name
          /\ products[it.productId].price # it.price

C20_Skips ==
  \A c \in Calls :
    /\ (calls[c].op = "cancel" /\ Returned(c)
        /\ \E j \in 1..Len(orders[calls[c].orderId].items) :
             ~products[orders[calls[c].orderId].items[j].productId].exists)
         => LET o == calls[c].orderId
                items == orders[o].items
            IN /\ orders' = [orders EXCEPT ![o].status = "cancelled"]
               /\ \A p \in Products :
                    IF ~products[p].exists THEN ~products'[p].exists
                    ELSE IF C10_Ordered(items, p) > 0
                    THEN /\ products'[p].exists /\ products'[p].inStock
                         /\ products'[p].quantity = products[p].quantity + C10_Ordered(items, p)
                    ELSE products'[p] = products[p]
    /\ calls[c].op = "cancel" => Thrown(c).kind # "ProductNotFound"

\* C20: CancelOrder skips an order item whose product no longer exists: the
\* call never fails for the missing product, and when it returns the products
\* of the other items are restored, the order is cancelled and no product has
\* been created for the missing id.
C20_MissingProductSkipped == [][C20_Skips]_vars

\* an order of two items was cancelled after one of its products was deleted
C20_Witness ==
  /\ finished.op = "cancel" /\ finished.result = "ok"
  /\ orders[finished.orderId].status = "cancelled"
  /\ Len(finished.order.items) = 2
  /\ \E j, k \in 1..2 :
       /\ ~products[finished.order.items[j].productId].exists
       /\ products[finished.order.items[k].productId].exists

\* the transaction of the call in slot c is open
C21_Open(c) == calls[c].op \in {"place", "cancel"} /\ calls[c].pc # "idle"

\* the step that ends a call hands back one outcome, returned or thrown, and
\* leaves a slot without snapshot, writes or locks
C21_Ended ==
  \A c \in Calls :
    (C21_Open(c) /\ calls'[c].pc = "idle")
      => /\ finished'.op = calls[c].op
         /\ finished'.result \in {"ok", "failed"}
         /\ (finished'.result = "ok") = (calls[c].pc = "commit")
         /\ calls'[c] = IdleCall

\* C21: every invoked PlaceOrder or CancelOrder call eventually ends, either
\* committed (it returns) or aborted (it throws), and in both cases its
\* session is ended: no call keeps its transaction open forever.
C21_Terminates ==
  /\ \A c \in Calls : C21_Open(c) ~> (calls[c].pc = "idle")
  /\ [][C21_Ended]_vars

\* a cancellation whose commit failed has been aborted and has released the
\* product and the order it had written
C21_Witness ==
  /\ finished.op = "cancel" /\ finished.result = "failed"
  /\ finished.err.kind = "CommitFailed"
  /\ \A c \in Calls : calls[c].pc = "idle" /\ calls[c].wP = {} /\ ~calls[c].wOrd

\* the units of product p held by the orders that are not cancelled
RECURSIVE C22_Held(_, _)
C22_Held(ords, p) ==
  IF ords = <<>> THEN 0
  ELSE (IF Head(ords).status = "cancelled" THEN 0 ELSE C10_Ordered(Head(ords).items, p))
       + C22_Held(Tail(ords), p)

\* C22: stock conservation: with no catalog edits, the quantity of every
\* product plus the quantity of it held by the orders whose status is not
\* cancelled equals the product's initial quantity, in every reachable state
\* of the committed store, whichever way an order became cancelled.
C22_StockConserved ==
  \A p \in Products :
    products[p].quantity + C22_Held(orders, p) = (IF p = "p1" THEN MaxQty ELSE 1)

\* C23: one cart yields at most one order: of the PlaceOrder calls of one
\* user that read the same non-empty cart, with stock for all of them, at
\* most one creates an order and takes the cart's items from the inventory.
C23_OneCartOneOrder ==
  /\ Len(orders) <= 1
  /\ products["p1"].quantity >= MaxQty - 1

\* the transaction of call c holds a write of the cancellation of order o
C24_Holds(c, o) ==
  calls[c].op = "cancel" /\ calls[c].orderId = o /\ (calls[c].wP # {} \/ calls[c].wOrd)

\* of the cancellations of one order at most one holds a restored product or
\* the cancelled order at any time, and the stock never exceeds what the
\* store started with
C24_OneHolder ==
  /\ \A o \in 1..Len(orders) :
       \A c, d \in Calls : (c # d /\ C24_Holds(c, o)) => ~C24_Holds(d, o)
  /\ products["p1"].quantity <= MaxQty

\* a cancellation that commits finds the order pending, adds the ordered
\* quantity to the committed quantity of each product once, and leaves no
\* other cancellation of the order with a write to commit
C24_CommitsOnce ==
  \A c \in Calls :
    (calls[c].op = "cancel" /\ Returned(c)) =>
      LET o == calls[c].orderId
      IN /\ orders[o].status = "pending"
         /\ orders'[o].status = "cancelled"
         /\ \A p \in Products :
              products'[p].quantity = products[p].quantity + C10_Ordered(orders[o].items, p)
         /\ \A d \in Calls \ {c} : ~C24_Holds(d, o)

\* C24: when two CancelOrder calls of the owner run concurrently on one
\* pending order, the items go back to the inventory exactly once: at most
\* one of the calls commits, and the quantity ends at the quantity before
\* the cancellation plus the ordered quantity, never plus twice of it.
C24_RestoredOnce == []C24_OneHolder /\ [][C24_CommitsOnce]_vars

\* the owner cancelled the order twice at once: one call committed and the
\* other, which had read the order as pending, was refused by the store
C24_Witness ==
  /\ finished.op = "cancel" /\ finished.result = "failed"
  /\ finished.err.kind = "WriteConflict"
  /\ finished.userId = "u1"
  /\ orders[finished.orderId].status = "cancelled"
  /\ products["p1"].quantity = MaxQty

\* the change call c makes to the quantity of product p: minus the quantity
\* in its cart for a placement, plus the ordered quantity for a cancellation
C25_Delta(c, p) ==
  IF calls[c].op = "place" THEN 0 - C10_Ordered(calls[c].cart, p)
  ELSE IF calls[c].op = "cancel" THEN C10_Ordered(calls[c].order.items, p)
  ELSE 0

\* every product document an open transaction has written and may still
\* commit was computed from the quantity that is committed now
C25_FreshBase ==
  \A c \in Calls :
    calls[c].pc # "catch" =>
      \A p \in calls[c].wP :
        calls[c].snapP[p].quantity = products[p].quantity + C25_Delta(c, p)

\* a committed quantity changes only in the commit of a call, and then by
\* the quantities of that call, applied to the quantity committed before
C25_CommitApplies ==
  /\ (\E p \in Products : products'[p].quantity # products[p].quantity)
       => \E c \in Calls : calls[c].op \in {"place", "cancel"} /\ Returned(c)
  /\ \A c \in Calls :
       (calls[c].op \in {"place", "cancel"} /\ Returned(c)) =>
         \A p \in Products :
           products'[p].quantity = products[p].quantity + C25_Delta(c, p)

\* C25: no lost update on inventory: when PlaceOrder calls of different users,
\* or a PlaceOrder and a CancelOrder, run concurrently on one product, every
\* committed call changes the committed quantity by exactly its own
\* quantities, so that the final quantity is the initial one minus the
\* committed orders plus the committed cancellations; no call writes back a
\* quantity computed from a value another call has since replaced.
C25_NoLostUpdate == []C25_FreshBase /\ [][C25_CommitApplies]_vars

\* with stock for both, the order of one user was committed while the other
\* user's call held an older snapshot of the product: the store refused the
\* second decrement and the committed quantity is the first call's
C25_Witness ==
  /\ finished.op = "place" /\ finished.result = "failed"
  /\ finished.err.kind = "WriteConflict"
  /\ Len(orders) = 1
  /\ orders[1].userId # finished.userId
  /\ products["p1"].quantity = MaxQty - C10_Ordered(orders[1].items, "p1")
  /\ products["p1"].quantity >= 1
  /\ \A c \in Calls : calls[c].pc = "idle"

\* in the step in which a PlaceOrder call empties the cart, every item the
\* cart holds is an item of the order the call has created, with the same
\* quantity
C26_Clears ==
  \A c \in Calls :
    (calls[c].op = "place" /\ calls[c].pc = "clearSave" /\ calls'[c].pc = "commit") =>
      LET items == carts[calls[c].userId].items
          ordered == calls[c].order.items
      IN \A j \in 1..Len(items) :
           \E k \in 1..Len(ordered) :
             /\ ordered[k].productId = items[j].productId
             /\ ordered[k].quantity = items[j].quantity

\* C26: every item that PlaceOrder removes from the cart is part of the order
\* it created: an item the user adds or changes after PlaceOrder has read the
\* cart and before it clears it is not discarded without being ordered.
C26_ClearedWereOrdered == [][C26_Clears]_vars

\* the step is one of an UpdateOrderStatus call: its read and check, rejected
\* or accepted, or its save
C27_UpdateStep ==
  \/ finished'.op = "update"
  \/ \E c \in Calls : calls[c].pc = "idle" /\ calls'[c].op = "update"

C27_Frame ==
  C27_UpdateStep =>
    /\ products' = products
    /\ carts' = carts
    /\ Len(orders') = Len(orders)
    /\ \A o \in 1..Len(orders) :
         /\ orders'[o].items = orders[o].items
         /\ orders'[o].totalAmount = orders[o].totalAmount
         /\ orders'[o].userId = orders[o].userId
         /\ orders'[o].status # orders[o].status
              => /\ finished'.op = "update" /\ finished'.result = "ok"
                 /\ finished'.orderId = o
                 /\ orders'[o].status = finished'.newStatus

\* C27: UpdateOrderStatus changes only the status field of the one addressed
\* order: no step of it, accepted or rejected, a transition to cancelled
\* included, changes a product's quantity or inStock, a cart, the items,
\* totalAmount or userId of the order, or another order.
C27_OnlyStatus == [][C27_Frame]_vars

\* an order was moved to cancelled by UpdateOrderStatus and the units it
\* holds are still missing from the product's quantity
C27_Witness ==
  /\ finished.op = "update" /\ finished.result = "ok"
  /\ finished.newStatus = "cancelled"
  /\ orders[finished.orderId].status = "cancelled"
  /\ Len(orders) = 1
  /\ products["p1"].quantity + products["p2"].quantity < MaxQty + 1

\* the sum of the counts and of the totalAmount values of a set of groups
RECURSIVE C28_Counts(_)
C28_Counts(groups) ==
  IF groups = {} THEN 0
  ELSE LET g == CHOOSE g \in groups : TRUE
       IN g.count + C28_Counts(groups \ {g})

RECURSIVE C28_Amounts(_)
C28_Amounts(groups) ==
  IF groups = {} THEN 0
  ELSE LET g == CHOOSE g \in groups : TRUE
       IN g.totalAmount + C28_Amounts(groups \ {g})

\* C28: the three reads of GetOrderStatistics are mutually consistent even
\* when PlaceOrder, CancelOrder or UpdateOrderStatus commit while it runs: in
\* every returned result the byStatus counts sum to totalOrders, and
\* totalRevenue is the sum of the byStatus totalAmount values of the groups
\* that are not cancelled.
C28_StatsConsistent ==
  (finished.op = "stats" /\ finished.result = "ok") =>
    LET st == finished.stats
    IN /\ C28_Counts(st.byStatus) = st.totalOrders
       /\ C28_Amounts({g \in st.byStatus : g.id # "cancelled"}) = st.totalRevenue

\* call c empties the cart of its user in this step
C29_ClearsCart(c) ==
  calls[c].op = "place" /\ calls[c].pc = "clearSave" /\ calls'[c].pc = "commit"

C29_Isolated ==
  \* no step changes the owner of an order or removes an order
  /\ Len(orders') >= Len(orders)
  /\ \A o \in 1..Len(orders) : orders'[o].userId = orders[o].userId
  \* a cart loses items only when a PlaceOrder call of its own user clears it
  /\ \A v \in Users :
       (carts[v].exists /\ (~carts'[v].exists \/ Len(carts'[v].items) < Len(carts[v].items)))
         => \E c \in Calls : C29_ClearsCart(c) /\ calls[c].userId = v
  /\ \A c \in Calls :
       \* the clear of PlaceOrder(u) leaves every other cart as it is
       /\ C29_ClearsCart(c) => \A v \in Users \ {calls[c].userId} : carts'[v] = carts[v]
       \* a PlaceOrder(u) that returns has added one order, owned by u
       /\ (calls[c].op = "place" /\ Returned(c))
            => /\ Len(orders') = Len(orders) + 1
               /\ orders'[Len(orders')].userId = calls[c].userId
               /\ \A o \in 1..Len(orders) : orders'[o] = orders[o]
               /\ carts' = carts
       \* a CancelOrder of u that returns has changed one order, owned by u
       /\ (calls[c].op = "cancel" /\ Returned(c))
            => /\ orders[calls[c].orderId].userId = calls[c].userId
               /\ Len(orders') = Len(orders)
               /\ \A o \in 1..Len(orders) : o # calls[c].orderId => orders'[o] = orders[o]
               /\ carts' = carts
       \* the step in which a call fails changes no order and no cart
       /\ (calls[c].op \in {"place", "cancel"} /\ Thrown(c).kind # NoErr.kind)
            => orders' = orders /\ carts' = carts

\* C29: per-user isolation: PlaceOrder(u) clears only the cart of u and
\* creates an order owned by u, a CancelOrder requested by u changes only an
\* order owned by u, neither changes another user's cart or orders whether
\* it succeeds or fails, and no step ever changes the userId of an order.
C29_PerUserIsolation == [][C29_Isolated]_vars

\* u2 has placed an order while u1 has an order and a filled cart: the order
\* and the cart of u1 are as they were
C29_Witness ==
  /\ finished.op = "place" /\ finished.result = "ok" /\ finished.userId = "u2"
  /\ Len(orders) = 2
  /\ orders[1].userId = "u1" /\ orders[1].status = "pending"
  /\ orders[2].userId = "u2"
  /\ carts["u1"].exists /\ Len(carts["u1"].items) > 0
  /\ Len(carts["u2"].items) = 0

=============================================================================
